---- MODULE Spec2Model ----
(***************************************************************************)
(* Model of the BESS revenue leaderboard: the script of app.py run for one *)
(* settlement date, with the calculators of src/components and the merge   *)
(* and formatting of src/utils.py.                                         *)
(*                                                                         *)
(* A DataFrame is a sequence of records (its rows, in row order).  A value *)
(* of a numeric column is an exact rational <<n, d>> with d > 0, or NaN;   *)
(* floating-point rounding is not modelled.  Identifiers (unit names, BMU  *)
(* ids, sites) and dates are small integers compared as the strings are:   *)
(* by equality, and by order where pandas sorts group keys.                *)
(***************************************************************************)
EXTENDS Integers, Sequences, FiniteSets, TLC

(***************************************************************************)
(* Numbers                                                                 *)
(***************************************************************************)
NaN == <<0, 0>>

IsNaN(x) == x[2] = 0

Abs(n) == IF n < 0 THEN -n ELSE n

RECURSIVE GCD(_, _)
GCD(a, b) == IF b = 0 THEN a ELSE GCD(b, a % b)

\* the rational n/d in lowest terms; a zero denominator gives NaN (0/0)
Norm(n, d) ==
    IF d = 0 THEN NaN
    ELSE LET g == GCD(Abs(n), Abs(d))
             s == IF d < 0 THEN -1 ELSE 1
         IN  <<(s * n) \div g, (s * d) \div g>>

R(n) == <<n, 1>>

RAdd(x, y) == IF IsNaN(x) \/ IsNaN(y) THEN NaN
              ELSE Norm(x[1] * y[2] + y[1] * x[2], x[2] * y[2])

RMul(x, y) == IF IsNaN(x) \/ IsNaN(y) THEN NaN
              ELSE Norm(x[1] * y[1], x[2] * y[2])

RDiv(x, y) == IF IsNaN(x) \/ IsNaN(y) THEN NaN
              ELSE Norm(x[1] * y[2], x[2] * y[1])

RLess(x, y) == x[1] * y[2] < y[1] * x[2]

\* Series.astype(int) of a finite float: truncation toward zero
AsTypeInt(x) == IF x[1] >= 0 THEN x[1] \div x[2] ELSE -((-x[1]) \div x[2])

\* DataFrame.fillna(0) on one cell
FillNa0(x) == IF IsNaN(x) THEN R(0) ELSE x

\* Series.sum(): NaN cells are skipped, the sum of no cell is 0
RECURSIVE SumSkipNa(_)
SumSkipNa(s) ==
    IF s = <<>> THEN R(0)
    ELSE IF IsNaN(s[1]) THEN SumSkipNa(Tail(s))
    ELSE RAdd(s[1], SumSkipNa(Tail(s)))

(***************************************************************************)
(* DataFrames                                                              *)
(***************************************************************************)
\* Python's None, where a function returns no DataFrame
None == <<[none |-> TRUE]>>

\* a name of the script that is not yet bound
Unbound == <<[unbound |-> TRUE]>>

IsFrame(df) == df # None /\ df # Unbound

Column(df, col) == [i \in DOMAIN df |-> df[i][col]]

RECURSIVE SortedKeys(_)
\* the keys of a groupby, in the ascending order in which pandas emits groups
SortedKeys(S) ==
    IF S = {} THEN <<>>
    ELSE LET m == CHOOSE x \in S : \A y \in S : x <= y
         IN  <<m>> \o SortedKeys(S \ {m})

RECURSIVE Concat(_)
\* pd.concat of a sequence of row sequences
Concat(ss) == IF ss = <<>> THEN <<>> ELSE ss[1] \o Concat(Tail(ss))

SeqsUpTo(S, n) == UNION {[1..k -> S] : k \in 0..n}

\* length of a DataFrame as the len(df) > 0 tests of the fetchers see it
NotEmpty(df) == Len(df) > 0

\* the rows of `right` whose key column equals that of the left row l
MatchRows(l, right, on) == SelectSeq(right, LAMBDA q : q[on] = l[on])

\* pd.merge(left, right, on=on) (how="inner") as the pairs <<left row, right
\* row>> of its result: the order of the left keys is kept, and a left row
\* is repeated once per matching right row
InnerMerge(left, right, on) ==
    Concat([i \in DOMAIN left |->
              LET ms == MatchRows(left[i], right, on)
              IN  [j \in DOMAIN ms |-> <<left[i], ms[j]>>]])

\* the right half of a left row that matches no right row
NoMatch == [nomatch |-> TRUE]

\* pd.merge(left, right, on=on, how="left"): a left row without a match is
\* kept once, with the right columns missing
LeftMerge(left, right, on) ==
    Concat([i \in DOMAIN left |->
              LET ms == MatchRows(left[i], right, on)
              IN  IF ms = <<>> THEN << <<left[i], NoMatch>> >>
                  ELSE [j \in DOMAIN ms |-> <<left[i], ms[j]>>]])

(***************************************************************************)
(* src/src/utils.py                                                        *)
(***************************************************************************)
\* the plain mean of the values, the weights unused
get_wavg_unweighted(df, values, weights) ==
    RDiv(SumSkipNa(Column(df, values)), R(Len(df)))

\* (d * w).sum() / w.sum()
get_wavg(df, values, weights) ==
    LET d == Column(df, values)
        w == Column(df, weights)
    IN  RDiv(SumSkipNa([i \in DOMAIN df |-> RMul(d[i], w[i])]), SumSkipNa(w))

(***************************************************************************)
(* src/src/components/wholesale.py                                         *)
(***************************************************************************)
\* the tail of a fetcher: the frame when it has rows, else st.error and None
ReturnIfNotEmpty(df) == IF NotEmpty(df) THEN df ELSE None

\* the except branch of clean_MIDP: st.error, and the function returns None
clean_MIDP_raises(df) == ~IsFrame(df)

\* the periods without a weighted average left out of the result
clean_MIDP_dropna(df, values, weights) ==
    IF clean_MIDP_raises(df) THEN None
    ELSE LET keys == SortedKeys({df[i].settlementPeriod : i \in DOMAIN df})
             rows == [k \in DOMAIN keys |->
                        [settlementPeriod |-> keys[k],
                         MIDP |-> get_wavg(SelectSeq(df,
                                      LAMBDA r : r.settlementPeriod = keys[k]),
                                    values, weights)]]
         IN  SelectSeq(rows, LAMBDA r : ~IsNaN(r.MIDP))

clean_MIDP(df, values, weights) ==
    IF clean_MIDP_raises(df) THEN None
    ELSE LET keys == SortedKeys({df[i].settlementPeriod : i \in DOMAIN df})
         IN  [k \in DOMAIN keys |->
                [settlementPeriod |-> keys[k],
                 MIDP |-> get_wavg(SelectSeq(df, LAMBDA r : r.settlementPeriod = keys[k]),
                                   values, weights)]]

\* df.loc[:, ["level_2", "level_3"]].dropna() of get_system_price
DropNa(df) == SelectSeq(df, LAMBDA r : ~IsNaN(r.SysPrice))

SecondsPerHour == 3600

\* (timeTo - timeFrom).dt.seconds / 3600, the times being seconds of the day;
\* .dt.seconds is the seconds field of the timedelta, in 0..86399
Hours(r) == Norm((r.timeTo - r.timeFrom) % 86400, SecondsPerHour)

WithMIDP(r, q) ==
    [bmUnit |-> r.bmUnit, nationalGridBmUnit |-> r.nationalGridBmUnit,
     settlementPeriod |-> r.settlementPeriod, timeFrom |-> r.timeFrom,
     timeTo |-> r.timeTo, levelFrom |-> r.levelFrom, levelTo |-> r.levelTo,
     MIDP |-> q.MIDP]

WithSysPrice(r, q) ==
    [bmUnit |-> r.bmUnit, nationalGridBmUnit |-> r.nationalGridBmUnit,
     settlementPeriod |-> r.settlementPeriod, timeFrom |-> r.timeFrom,
     timeTo |-> r.timeTo, levelFrom |-> r.levelFrom, levelTo |-> r.levelTo,
     MIDP |-> r.MIDP, SysPrice |-> q.SysPrice]

\* the two price merges of split_pns_df, then fillna(0), Hours and Equal
JoinPrices(df, mid_price_df, sys_price_df) ==
    LET j1 == InnerMerge(df, mid_price_df, "settlementPeriod")
        m1 == [i \in DOMAIN j1 |-> WithMIDP(j1[i][1], j1[i][2])]
        j2 == InnerMerge(m1, sys_price_df, "settlementPeriod")
        m2 == [i \in DOMAIN j2 |-> WithSysPrice(j2[i][1], j2[i][2])]
    IN  [i \in DOMAIN m2 |->
           [bmUnit |-> m2[i].bmUnit, nationalGridBmUnit |-> m2[i].nationalGridBmUnit,
            settlementPeriod |-> m2[i].settlementPeriod, timeFrom |-> m2[i].timeFrom,
            timeTo |-> m2[i].timeTo,
            levelFrom |-> FillNa0(m2[i].levelFrom), levelTo |-> FillNa0(m2[i].levelTo),
            MIDP |-> FillNa0(m2[i].MIDP), SysPrice |-> FillNa0(m2[i].SysPrice),
            Hours |-> Hours(m2[i]),
            Equal |-> IF FillNa0(m2[i].levelFrom) = FillNa0(m2[i].levelTo) THEN 1 ELSE 0]]

\* the average of the two levels, not their sum
NetPN_average(r) == RDiv(RAdd(r.levelFrom, r.levelTo), R(2))

\* not_eq_df["Net PN"] = not_eq_df["levelFrom"] + not_eq_df["levelTo"]
NetPN(r) == RAdd(r.levelFrom, r.levelTo)

WithNetPN(r) ==
    [bmUnit |-> r.bmUnit, nationalGridBmUnit |-> r.nationalGridBmUnit,
     settlementPeriod |-> r.settlementPeriod, timeFrom |-> r.timeFrom,
     timeTo |-> r.timeTo, levelFrom |-> r.levelFrom, levelTo |-> r.levelTo,
     MIDP |-> r.MIDP, SysPrice |-> r.SysPrice, Hours |-> r.Hours, Equal |-> r.Equal,
     NetPN |-> NetPN(r)]

\* pd.merge raises on None, and split_pns_df re-raises as CustomException
split_pns_df_raises(df, mid_price_df, sys_price_df) ==
    ~IsFrame(df) \/ ~IsFrame(mid_price_df) \/ ~IsFrame(sys_price_df)

\* the pair (eq_df, not_eq_df) of split_pns_df and whether st.error is shown
split_pns_df(df, mid_price_df, sys_price_df) ==
    LET joined == JoinPrices(df, mid_price_df, sys_price_df)
        not_eq == SelectSeq(joined, LAMBDA r : r.Equal = 0)
        eq == SelectSeq(joined, LAMBDA r : r.Equal = 1)
        not_eq_df == [i \in DOMAIN not_eq |-> WithNetPN(not_eq[i])]
        dfs_not_empty == Len(eq) > 0 /\ Len(not_eq_df) > 0
    IN  [eq_df |-> eq, not_eq_df |-> not_eq_df, error |-> ~dfs_not_empty]

\* a row of wholesale_df: the two revenue columns on volume vol, and the
\* Net PN cell, which concat leaves missing on the rows of eq_df and
\* fillna(0) then sets to 0
WholesaleRow(r, vol, netpn) ==
    [bmUnit |-> r.bmUnit, nationalGridBmUnit |-> r.nationalGridBmUnit,
     settlementPeriod |-> r.settlementPeriod, timeFrom |-> r.timeFrom,
     timeTo |-> r.timeTo, levelFrom |-> r.levelFrom, levelTo |-> r.levelTo,
     MIDP |-> r.MIDP, SysPrice |-> r.SysPrice, Hours |-> r.Hours, Equal |-> r.Equal,
     NetPN |-> FillNa0(netpn),
     WholesaleMIDP |-> FillNa0(RMul(RMul(vol, r.Hours), r.MIDP)),
     WholesaleSys |-> FillNa0(RMul(RMul(vol, r.Hours), r.SysPrice))]

\* groupby(key)[cols].sum().reset_index(): one row per key, keys ascending
GroupRows(df, key, k) == SelectSeq(df, LAMBDA r : r[key] = k)

\* the pair (wholesale_df, grouped_wholesale) of get_wholesale_revenue
get_wholesale_revenue(eq_df, not_eq_df) ==
    LET eq == [i \in DOMAIN eq_df |-> WholesaleRow(eq_df[i], eq_df[i].levelFrom, NaN)]
        ne == [i \in DOMAIN not_eq_df |->
                 WholesaleRow(not_eq_df[i], not_eq_df[i].NetPN, not_eq_df[i].NetPN)]
        wholesale_df == Concat(<<eq, ne>>)
        keys == SortedKeys({wholesale_df[i].nationalGridBmUnit : i \in DOMAIN wholesale_df})
    IN  [wholesale_df |-> wholesale_df,
         grouped |->
           [k \in DOMAIN keys |->
              LET g == GroupRows(wholesale_df, "nationalGridBmUnit", keys[k])
              IN  [UnitName |-> keys[k],
                   WholesaleMIDP |-> SumSkipNa(Column(g, "WholesaleMIDP")),
                   WholesaleSys |-> SumSkipNa(Column(g, "WholesaleSys"))]]]

(***************************************************************************)
(* src/src/components/balancing_mechanism.py                               *)
(***************************************************************************)
\* get_BM_revenue on the concatenated pages df: None (after st.error) when
\* there is no record, else price * volume summed per BMU ID, keys ascending
get_BM_revenue(df) ==
    IF ~NotEmpty(df) THEN None
    ELSE LET subset == [i \in DOMAIN df |->
                          [BMU_ID |-> df[i].sys_price_id,
                           BM |-> RMul(df[i].price, df[i].volume)]]
             keys == SortedKeys({subset[i].BMU_ID : i \in DOMAIN subset})
         IN  [k \in DOMAIN keys |->
                [BMU_ID |-> keys[k],
                 BM |-> SumSkipNa(Column(GroupRows(subset, "BMU_ID", keys[k]), "BM"))]]

(***************************************************************************)
(* src/src/components/dfr.py                                               *)
(***************************************************************************)
BlocksFactor == 4

\* get_DFR_revenue on the concatenated pages df: None (after st.error) when
\* there is no record, else the records with Revenue added
get_DFR_revenue(df) ==
    IF ~NotEmpty(df) THEN None
    ELSE [i \in DOMAIN df |->
            [UnitName |-> df[i].UnitName, EFADate |-> df[i].EFADate,
             ClearingPrice |-> df[i].ClearingPrice,
             ClearedVolume |-> df[i].ClearedVolume,
             Revenue |-> RMul(RMul(df[i].ClearingPrice, df[i].ClearedVolume),
                              R(BlocksFactor))]]

\* (unit, date) pairs in the order groupby(["Unit Name", "EFA Date"]) emits
PairLeq(a, b) == a[1] < b[1] \/ (a[1] = b[1] /\ a[2] <= b[2])

RECURSIVE SortedPairs(_)
SortedPairs(S) ==
    IF S = {} THEN <<>>
    ELSE LET m == CHOOSE x \in S : \A y \in S : PairLeq(x, y)
         IN  <<m>> \o SortedPairs(S \ {m})

\* the except branch of filter_dfr_bmu: st.error, and None is returned
filter_dfr_bmu_raises(map_df, dfr_df) == ~IsFrame(map_df) \/ ~IsFrame(dfr_df)

\* the keys of the groupby of filter_dfr_bmu
DfrGroupKeys(dfr_mask) ==
    SortedPairs({<<dfr_mask[i].UnitName, dfr_mask[i].EFADate>> : i \in DOMAIN dfr_mask})

\* the records grouped without the isin mask of the mapping
filter_dfr_bmu_unfiltered(map_df, dfr_df) ==
    IF filter_dfr_bmu_raises(map_df, dfr_df) THEN None
    ELSE LET keys == DfrGroupKeys(dfr_df)
         IN  [k \in DOMAIN keys |->
                [UnitName |-> keys[k][1], EFADate |-> keys[k][2],
                 Revenue |->
                   SumSkipNa(Column(SelectSeq(dfr_df,
                       LAMBDA r : r.UnitName = keys[k][1] /\ r.EFADate = keys[k][2]),
                     "Revenue"))]]

filter_dfr_bmu(map_df, dfr_df) ==
    IF filter_dfr_bmu_raises(map_df, dfr_df) THEN None
    ELSE LET dfr_ffr_ids == {map_df[i].DFR_FFR_ID : i \in DOMAIN map_df}
             dfr_mask == SelectSeq(dfr_df, LAMBDA r : r.UnitName \in dfr_ffr_ids)
             keys == DfrGroupKeys(dfr_mask)
         IN  [k \in DOMAIN keys |->
                [UnitName |-> keys[k][1], EFADate |-> keys[k][2],
                 Revenue |->
                   SumSkipNa(Column(SelectSeq(dfr_mask,
                       LAMBDA r : r.UnitName = keys[k][1] /\ r.EFADate = keys[k][2]),
                     "Revenue"))]]

\* the rows of the mapping that carry DFR/FFR ID key
RowsOfKey(df, key) == SelectSeq(df, LAMBDA r : r.DFR_FFR_ID = key)

\* nested_dict of get_bmu_dfr_dict: the inner dict of the last row of a key
get_bmu_dfr_dict(df) ==
    [key \in {df[i].DFR_FFR_ID : i \in DOMAIN df} |->
       LET row == RowsOfKey(df, key)[Len(RowsOfKey(df, key))]
       IN  [BMU_ID |-> row.BMU_ID, Site |-> row.Site, MW |-> row.MW]]

\* the keys of dict_map a unit name equals (one list entry is appended for each)
KeysEqual(unit, dict_map) ==
    SortedKeys({key \in DOMAIN dict_map : unit = key})

\* the except branch of replace_units_with_site_names: df is None, or a list
\* assigned as a column is not as long as df
replace_units_raises(df, dict_map) ==
    \/ ~IsFrame(df)
    \/ Len(Concat([i \in DOMAIN df |-> KeysEqual(df[i].UnitName, dict_map)])) # Len(df)

replace_units_with_site_names(df, dict_map) ==
    IF replace_units_raises(df, dict_map) THEN None
    ELSE LET keys == Concat([i \in DOMAIN df |-> KeysEqual(df[i].UnitName, dict_map)])
         IN  [i \in DOMAIN df |->
                [UnitName |-> df[i].UnitName, EFADate |-> df[i].EFADate,
                 DFR |-> df[i].Revenue,
                 BMU_ID |-> dict_map[keys[i]].BMU_ID,
                 Site |-> dict_map[keys[i]].Site,
                 MW |-> dict_map[keys[i]].MW]]

\* pd.merge raises on None; append_wholesale_to_dfr does not catch it
append_wholesale_raises(dfr_df, wholesale_df) ==
    ~IsFrame(dfr_df) \/ ~IsFrame(wholesale_df)

WithWholesale(r, q) ==
    [UnitName |-> r.UnitName, BMU_ID |-> r.BMU_ID, Site |-> r.Site, MW |-> r.MW,
     EFADate |-> r.EFADate, DFR |-> FillNa0(r.DFR),
     WholesaleMIDP |-> FillNa0(q.WholesaleMIDP),
     WholesaleSys |-> FillNa0(q.WholesaleSys)]

append_wholesale_to_dfr(dfr_df, wholesale_df) ==
    LET j == InnerMerge(dfr_df, wholesale_df, "UnitName")
    IN  [i \in DOMAIN j |-> WithWholesale(j[i][1], j[i][2])]

(***************************************************************************)
(* src/src/utils.py, continued, and the merge of app.py                    *)
(***************************************************************************)
\* pd.to_datetime of an "HH:MM" time of the settlement date, as seconds
ToDatetime(t) == t[1] * SecondsPerHour + t[2] * 60

\* the except branch of convert_columns_to_datetime: st.error, df is returned
convert_columns_raises(df) == ~IsFrame(df)

convert_columns_to_datetime(df) ==
    IF convert_columns_raises(df) THEN df
    ELSE [i \in DOMAIN df |->
            [bmUnit |-> df[i].bmUnit, nationalGridBmUnit |-> df[i].nationalGridBmUnit,
             settlementPeriod |-> df[i].settlementPeriod,
             timeFrom |-> ToDatetime(df[i].timeFrom),
             timeTo |-> ToDatetime(df[i].timeTo),
             levelFrom |-> df[i].levelFrom, levelTo |-> df[i].levelTo]]

\* pd.merge(revenue_df, grouped_by_bmu_bm_df, on='BMU ID', how='left') raises
\* on None, uncaught
merge_bm_raises(revenue_df, bm_df) == ~IsFrame(revenue_df) \/ ~IsFrame(bm_df)

WithBM(r, q) ==
    [UnitName |-> r.UnitName, BMU_ID |-> r.BMU_ID, Site |-> r.Site, MW |-> r.MW,
     EFADate |-> r.EFADate, DFR |-> r.DFR, WholesaleMIDP |-> r.WholesaleMIDP,
     WholesaleSys |-> r.WholesaleSys, BM |-> IF q = NoMatch THEN NaN ELSE q.BM]

\* the balancing merge as an inner join
merge_bm_inner(revenue_df, bm_df) ==
    LET j == InnerMerge(revenue_df, bm_df, "BMU_ID")
    IN  [i \in DOMAIN j |-> WithBM(j[i][1], j[i][2])]

merge_bm(revenue_df, bm_df) ==
    LET j == LeftMerge(revenue_df, bm_df, "BMU_ID")
    IN  [i \in DOMAIN j |-> WithBM(j[i][1], j[i][2])]

DaysPerYear == 365
PoundsPerK == 1000

\* clean_df[float_cols] = clean_df.fillna(0)[float_cols].astype(int)
FloatCol(x) == AsTypeInt(FillNa0(x))

\* a total that also counts the system-price wholesale revenue
Total_with_sys(r) == r.DFR + r.WholesaleMIDP + r.WholesaleSys + r.BM

\* clean_df['Total (£)'] of a row r of clean_df
Total(r) == r.DFR + r.WholesaleMIDP + r.BM

\* the metric without the annualisation
KPerMWYear_per_day(total, mw) == RDiv(R(total), R(mw * PoundsPerK))

\* clean_df['k/MW/yr'] before it is cast: (Total * 365) / (MW * 1000)
KPerMWYear(total, mw) == RDiv(R(total * DaysPerYear), R(mw * PoundsPerK))

\* a row of clean_df after fillna(0) and the cast of float_cols
CastRow(r) ==
    [UnitName |-> r.UnitName, BMU_ID |-> r.BMU_ID, Site |-> r.Site, MW |-> r.MW,
     EFADate |-> r.EFADate, DFR |-> FloatCol(r.DFR),
     WholesaleMIDP |-> FloatCol(r.WholesaleMIDP),
     WholesaleSys |-> FloatCol(r.WholesaleSys), BM |-> FloatCol(r.BM)]

\* the rows of clean_df before sort_values, in the order of df
CleanRows(df) ==
    [i \in DOMAIN df |->
       LET r == CastRow(df[i])
       IN  [UnitName |-> r.UnitName, BMU_ID |-> r.BMU_ID, Site |-> r.Site,
            MW |-> r.MW, EFADate |-> r.EFADate, DFR |-> r.DFR,
            WholesaleMIDP |-> r.WholesaleMIDP, WholesaleSys |-> r.WholesaleSys,
            BM |-> r.BM, Total |-> Total(r),
            k_MW_yr |-> KPerMWYear(Total(r), r.MW)]]

Perms(n) == {p \in [1..n -> 1..n] : \A i, j \in 1..n : i # j => p[i] # p[j]}

\* the row orders sort_values(by='k/MW/yr', ascending=False) can produce: its
\* default kind is quicksort, which is not stable, so rows with equal keys
\* may come out in any order
SortOrders(rows) ==
    {p \in Perms(Len(rows)) :
       \A i, j \in 1..Len(rows) :
          i < j => ~RLess(rows[p[i]].k_MW_yr, rows[p[j]].k_MW_yr)}

\* format_revenue_reporting, the sort having produced the row order p
format_revenue_reporting(df, p) ==
    LET rows == CleanRows(df)
    IN  [i \in DOMAIN rows |->
           [Site |-> rows[p[i]].Site, EFADate |-> rows[p[i]].EFADate,
            MW |-> rows[p[i]].MW, DFR |-> rows[p[i]].DFR, BM |-> rows[p[i]].BM,
            WholesaleMIDP |-> rows[p[i]].WholesaleMIDP,
            WholesaleSys |-> rows[p[i]].WholesaleSys,
            Total |-> rows[p[i]].Total,
            k_MW_yr |-> AsTypeInt(rows[p[i]].k_MW_yr)]]

(***************************************************************************)
(* What the upstream services hold for the selected date                   *)
(***************************************************************************)
MaxPN == 2
MaxQuot == 2
MaxDFR == 2
MaxBM == 2

\* data/asset_ids.xlsx: BMU ids are 11.., the unit names of the auction and
\* of National Grid are 1..; DFR/FFR ID 0 is an empty cell (not enrolled)
AssetRow(site, bmu, dfr, mw) ==
    [Site |-> site, BMU_ID |-> bmu, DFR_FFR_ID |-> dfr, MW |-> mw]

AssetIds == <<AssetRow(1, 11, 1, 2), AssetRow(2, 12, 2, 1), AssetRow(3, 13, 0, 1)>>

PN(bmu, ng, sp, from, to, lf, lt) ==
    [bmUnit |-> bmu, nationalGridBmUnit |-> ng, settlementPeriod |-> sp,
     timeFrom |-> from, timeTo |-> to, levelFrom |-> R(lf), levelTo |-> R(lt)]

\* physical notifications: flat, ramping, of zero duration, of negative level
PNRecords ==
    {PN(11, 1, 1, <<0, 0>>, <<0, 30>>, 5, 5),
     PN(11, 1, 1, <<0, 0>>, <<0, 15>>, 2, -4),
     PN(12, 2, 1, <<0, 15>>, <<0, 15>>, 3, 3),
     PN(12, 2, 2, <<0, 30>>, <<1, 0>>, -1, -1)}

\* the notification tables of the runs that vary the other streams; in the
\* last one National Grid names the unit of asset 2 otherwise (7) than the
\* auction does (2)
PNTables ==
    {<<PN(11, 1, 1, <<0, 0>>, <<0, 30>>, 1, 1)>>,
     <<PN(11, 1, 1, <<0, 10>>, <<0, 10>>, 3, 3),
       PN(12, 2, 1, <<0, 0>>, <<0, 1>>, 1, 3)>>,
     <<PN(12, 7, 1, <<0, 0>>, <<0, 1>>, 1, 3)>>}

Quot(provider, sp, price, volume) ==
    [provider |-> provider, settlementPeriod |-> sp, MIDP |-> R(price),
     Volume |-> R(volume)]

QuotRecords ==
    {Quot("APXMIDP", 1, 50, 10), Quot("N2EXMIDP", 1, 70, 30),
     Quot("N2EXMIDP", 1, 100, 1), Quot("APXMIDP", 2, 100, 0)}

SysRow(sp, price) == [settlementPeriod |-> sp, SysPrice |-> price]

\* DERSYSDATA: at most one row per settlement period, a price may be empty
SysTables ==
    {<<>>, <<SysRow(1, R(2))>>, <<SysRow(2, R(3))>>,
     <<SysRow(1, R(2)), SysRow(2, R(3))>>, <<SysRow(1, R(2)), SysRow(2, NaN)>>}

Auction(unit, date, price, volume) ==
    [UnitName |-> unit, EFADate |-> date, ClearingPrice |-> price,
     ClearedVolume |-> R(volume)]

\* unit 1 cleared on two EFA dates; unit 6 is not in the mapping
AuctionRecords ==
    {Auction(1, 1, R(25), 1), Auction(1, 2, R(25), 1), Auction(1, 1, R(9125), 1),
     Auction(1, 2, <<36501, 4>>, 1), Auction(2, 1, <<1, 8>>, 1), Auction(6, 1, R(4), 2)}

Settlement(id, price, volume) ==
    [sys_price_id |-> id, price |-> price, volume |-> R(volume)]

\* unit 14 is not of the fleet
SettlementRecords ==
    {Settlement(11, R(5), 5), Settlement(12, <<-35, 4>>, 1), Settlement(14, R(1), 1)}

Upstream(assets, pn, mid, sys, bm, dfr) ==
    [assets |-> assets, pn |-> pn, mid |-> mid, sys |-> sys, bm |-> bm, dfr |-> dfr]

\* response.json()["next"] of the last page: None
NoUrl == 0

\* a response: whether the server answers at all, whether its status is a
\* success (raise_for_status), the records of the page and the "next" link
Page(answers, ok, results, next) ==
    [answers |-> answers, ok |-> ok, results |-> results, next |-> next]

\* every endpoint answering with the whole table on one page
OnePage(up) ==
    [pn |-> <<Page(TRUE, TRUE, up.pn, NoUrl)>>,
     mid |-> <<Page(TRUE, TRUE, up.mid, NoUrl)>>,
     sys |-> <<Page(TRUE, TRUE, up.sys, NoUrl)>>,
     bm |-> <<Page(TRUE, TRUE, up.bm, NoUrl)>>,
     dfr |-> <<Page(TRUE, TRUE, up.dfr, NoUrl)>>]

(***************************************************************************)
(* The run of app.py for one date                                          *)
(***************************************************************************)
VARIABLES
    upstream,                     \* what the services answer for the date
    pc,                           \* the statement of app.py that runs next
    st_errors,                    \* the st.error messages shown so far
    asset_ids_df, pns, cleaned_pns, midp, clean_midp, sys_price,
    eq_df, not_eq_df, wholesale_df, grouped_by_bmu_wholesale_df,
    grouped_by_bmu_bm_df, dfr_df, dfr_bmu_df, bmu_dict,
    grouped_by_unit_dfr_df, revenue_df, df_dfr_ws_bm, format_df,
    server,                       \* the pages each endpoint answers with
    fetch_pc,                     \* the position inside the running fetcher
    url,                          \* the url the fetcher requests next
    df_list,                      \* the frames of the responses received
    in_flight,                    \* requests submitted and not yet answered
    requested                     \* the requests made so far, in order

wsVars == <<pns, cleaned_pns, midp, clean_midp, sys_price, eq_df, not_eq_df,
            wholesale_df, grouped_by_bmu_wholesale_df>>

dfrVars == <<dfr_df, dfr_bmu_df, bmu_dict, grouped_by_unit_dfr_df>>

mergeVars == <<revenue_df, df_dfr_ws_bm, format_df>>

fetchVars == <<server, fetch_pc, url, df_list, in_flight, requested>>

vars == <<upstream, pc, st_errors, asset_ids_df, wsVars, grouped_by_bmu_bm_df,
          dfrVars, mergeVars, fetchVars>>

InitRun ==
    /\ pc = "get_asset_ids"
    /\ st_errors = <<>>
    /\ asset_ids_df = Unbound
    /\ pns = Unbound /\ cleaned_pns = Unbound /\ midp = Unbound
    /\ clean_midp = Unbound /\ sys_price = Unbound
    /\ eq_df = Unbound /\ not_eq_df = Unbound /\ wholesale_df = Unbound
    /\ grouped_by_bmu_wholesale_df = Unbound /\ grouped_by_bmu_bm_df = Unbound
    /\ dfr_df = Unbound /\ dfr_bmu_df = Unbound /\ bmu_dict = Unbound
    /\ grouped_by_unit_dfr_df = Unbound
    /\ revenue_df = Unbound /\ df_dfr_ws_bm = Unbound /\ format_df = Unbound
    /\ fetch_pc = "idle" /\ url = NoUrl /\ df_list = <<>>
    /\ in_flight = 0 /\ requested = <<>>

\* runs that vary the auction and the balancing streams
Init ==
    /\ upstream \in {Upstream(AssetIds, pn, <<Quot("N2EXMIDP", 1, 100, 1)>>,
                              <<SysRow(1, R(1998))>>, bm, dfr) :
                       pn \in PNTables,
                       bm \in SeqsUpTo(SettlementRecords, MaxBM),
                       dfr \in SeqsUpTo(AuctionRecords, MaxDFR)}
    /\ server = OnePage(upstream)
    /\ InitRun

\* runs that vary the notifications and the two price series
InitWholesale ==
    /\ upstream \in {Upstream(AssetIds, pn, mid, sys,
                              <<Settlement(11, R(5), 5)>>, <<Auction(1, 1, R(25), 1)>>) :
                       pn \in SeqsUpTo(PNRecords, MaxPN),
                       mid \in SeqsUpTo(QuotRecords, MaxQuot), sys \in SysTables}
    /\ server = OnePage(upstream)
    /\ InitRun

Shown(errors, cond, msg) == IF cond THEN Append(errors, msg) ELSE errors

\* app.py:41
Run_get_asset_ids ==
    /\ pc = "get_asset_ids"
    /\ asset_ids_df' = upstream.assets
    /\ pc' = "get_physical_notifications"
    /\ UNCHANGED <<upstream, fetchVars, st_errors, wsVars, grouped_by_bmu_bm_df, dfrVars, mergeVars>>

\* app.py:44
Run_get_physical_notifications ==
    /\ pc = "get_physical_notifications"
    /\ LET bmus == {asset_ids_df[i].BMU_ID : i \in DOMAIN asset_ids_df}
           df == SelectSeq(upstream.pn, LAMBDA r : r.bmUnit \in bmus)
       IN  /\ pns' = ReturnIfNotEmpty(df)
           /\ st_errors' = Shown(st_errors, ~NotEmpty(df), "PNs")
    /\ pc' = "convert_columns_to_datetime"
    /\ UNCHANGED <<upstream, fetchVars, asset_ids_df, cleaned_pns, midp, clean_midp, sys_price,
                   eq_df, not_eq_df, wholesale_df, grouped_by_bmu_wholesale_df,
                   grouped_by_bmu_bm_df, dfrVars, mergeVars>>

\* app.py:45; the columns are converted in place, so pns is the same frame
Run_convert_columns_to_datetime ==
    /\ pc = "convert_columns_to_datetime"
    /\ cleaned_pns' = convert_columns_to_datetime(pns)
    /\ pns' = cleaned_pns'
    /\ st_errors' = Shown(st_errors, convert_columns_raises(pns), "datetime")
    /\ pc' = "get_MIDP"
    /\ UNCHANGED <<upstream, fetchVars, asset_ids_df, midp, clean_midp, sys_price,
                   eq_df, not_eq_df, wholesale_df, grouped_by_bmu_wholesale_df,
                   grouped_by_bmu_bm_df, dfrVars, mergeVars>>

\* app.py:49
Run_get_MIDP ==
    /\ pc = "get_MIDP"
    /\ midp' = ReturnIfNotEmpty(upstream.mid)
    /\ st_errors' = Shown(st_errors, ~NotEmpty(upstream.mid), "MIDP")
    /\ pc' = "clean_MIDP"
    /\ UNCHANGED <<upstream, fetchVars, asset_ids_df, pns, cleaned_pns, clean_midp, sys_price,
                   eq_df, not_eq_df, wholesale_df, grouped_by_bmu_wholesale_df,
                   grouped_by_bmu_bm_df, dfrVars, mergeVars>>

\* app.py:50
Run_clean_MIDP ==
    /\ pc = "clean_MIDP"
    /\ clean_midp' = clean_MIDP(midp, "MIDP", "Volume")
    /\ st_errors' = Shown(st_errors, clean_MIDP_raises(midp), "weighted average")
    /\ pc' = "get_system_price"
    /\ UNCHANGED <<upstream, fetchVars, asset_ids_df, pns, cleaned_pns, midp, sys_price,
                   eq_df, not_eq_df, wholesale_df, grouped_by_bmu_wholesale_df,
                   grouped_by_bmu_bm_df, dfrVars, mergeVars>>

\* app.py:53
Run_get_system_price ==
    /\ pc = "get_system_price"
    /\ sys_price' = IF NotEmpty(upstream.sys) THEN DropNa(upstream.sys) ELSE None
    /\ st_errors' = Shown(st_errors, ~NotEmpty(upstream.sys), "system price")
    /\ pc' = "split_pns_df"
    /\ UNCHANGED <<upstream, fetchVars, asset_ids_df, pns, cleaned_pns, midp, clean_midp,
                   eq_df, not_eq_df, wholesale_df, grouped_by_bmu_wholesale_df,
                   grouped_by_bmu_bm_df, dfrVars, mergeVars>>

\* app.py:56
Run_split_pns_df ==
    /\ pc = "split_pns_df"
    /\ IF split_pns_df_raises(cleaned_pns, clean_midp, sys_price)
       THEN /\ pc' = "raised"
            /\ UNCHANGED <<eq_df, not_eq_df, st_errors>>
       ELSE LET split == split_pns_df(cleaned_pns, clean_midp, sys_price)
            IN  /\ eq_df' = split.eq_df
                /\ not_eq_df' = split.not_eq_df
                /\ st_errors' = Shown(st_errors, split.error, "splitting")
                /\ pc' = "get_wholesale_revenue"
    /\ UNCHANGED <<upstream, fetchVars, asset_ids_df, pns, cleaned_pns, midp, clean_midp,
                   sys_price, wholesale_df, grouped_by_bmu_wholesale_df,
                   grouped_by_bmu_bm_df, dfrVars, mergeVars>>

\* app.py:59
Run_get_wholesale_revenue ==
    /\ pc = "get_wholesale_revenue"
    /\ LET ws == get_wholesale_revenue(eq_df, not_eq_df)
       IN  /\ wholesale_df' = ws.wholesale_df
           /\ grouped_by_bmu_wholesale_df' = ws.grouped
    /\ pc' = "get_BM_revenue"
    /\ UNCHANGED <<upstream, fetchVars, st_errors, asset_ids_df, pns, cleaned_pns, midp,
                   clean_midp, sys_price, eq_df, not_eq_df,
                   grouped_by_bmu_bm_df, dfrVars, mergeVars>>

\* app.py:62
Run_get_BM_revenue ==
    /\ pc = "get_BM_revenue"
    /\ grouped_by_bmu_bm_df' = get_BM_revenue(upstream.bm)
    /\ st_errors' = Shown(st_errors, ~NotEmpty(upstream.bm), "DETSYS")
    /\ pc' = "get_DFR_revenue"
    /\ UNCHANGED <<upstream, fetchVars, asset_ids_df, wsVars, dfrVars, mergeVars>>

\* app.py:65
Run_get_DFR_revenue ==
    /\ pc = "get_DFR_revenue"
    /\ dfr_df' = get_DFR_revenue(upstream.dfr)
    /\ st_errors' = Shown(st_errors, ~NotEmpty(upstream.dfr), "DFR")
    /\ pc' = "filter_dfr_bmu"
    /\ UNCHANGED <<upstream, fetchVars, asset_ids_df, wsVars, grouped_by_bmu_bm_df,
                   dfr_bmu_df, bmu_dict, grouped_by_unit_dfr_df, mergeVars>>

\* app.py:67
Run_filter_dfr_bmu ==
    /\ pc = "filter_dfr_bmu"
    /\ dfr_bmu_df' = filter_dfr_bmu(asset_ids_df, dfr_df)
    /\ st_errors' = Shown(st_errors, filter_dfr_bmu_raises(asset_ids_df, dfr_df), "BMUs")
    /\ pc' = "get_bmu_dfr_dict"
    /\ UNCHANGED <<upstream, fetchVars, asset_ids_df, wsVars, grouped_by_bmu_bm_df,
                   dfr_df, bmu_dict, grouped_by_unit_dfr_df, mergeVars>>

\* app.py:68
Run_get_bmu_dfr_dict ==
    /\ pc = "get_bmu_dfr_dict"
    /\ bmu_dict' = get_bmu_dfr_dict(asset_ids_df)
    /\ pc' = "replace_units_with_site_names"
    /\ UNCHANGED <<upstream, fetchVars, st_errors, asset_ids_df, wsVars, grouped_by_bmu_bm_df,
                   dfr_df, dfr_bmu_df, grouped_by_unit_dfr_df, mergeVars>>

\* app.py:69
Run_replace_units_with_site_names ==
    /\ pc = "replace_units_with_site_names"
    /\ grouped_by_unit_dfr_df' = replace_units_with_site_names(dfr_bmu_df, bmu_dict)
    /\ st_errors' = Shown(st_errors, replace_units_raises(dfr_bmu_df, bmu_dict), "sites")
    /\ pc' = "append_wholesale_to_dfr"
    /\ UNCHANGED <<upstream, fetchVars, asset_ids_df, wsVars, grouped_by_bmu_bm_df,
                   dfr_df, dfr_bmu_df, bmu_dict, mergeVars>>

\* app.py:72-75
Run_append_wholesale_to_dfr ==
    /\ pc = "append_wholesale_to_dfr"
    /\ IF append_wholesale_raises(grouped_by_unit_dfr_df, grouped_by_bmu_wholesale_df)
       THEN pc' = "raised" /\ UNCHANGED revenue_df
       ELSE /\ revenue_df' = append_wholesale_to_dfr(grouped_by_unit_dfr_df,
                                                     grouped_by_bmu_wholesale_df)
            /\ pc' = "merge_bm"
    /\ UNCHANGED <<upstream, fetchVars, st_errors, asset_ids_df, wsVars, grouped_by_bmu_bm_df,
                   dfrVars, df_dfr_ws_bm, format_df>>

\* app.py:77
Run_merge_bm ==
    /\ pc = "merge_bm"
    /\ IF merge_bm_raises(revenue_df, grouped_by_bmu_bm_df)
       THEN pc' = "raised" /\ UNCHANGED df_dfr_ws_bm
       ELSE /\ df_dfr_ws_bm' = merge_bm(revenue_df, grouped_by_bmu_bm_df)
            /\ pc' = "format_revenue_reporting"
    /\ UNCHANGED <<upstream, fetchVars, st_errors, asset_ids_df, wsVars, grouped_by_bmu_bm_df,
                   dfrVars, revenue_df, format_df>>

\* app.py:79
Run_format_revenue_reporting ==
    /\ pc = "format_revenue_reporting"
    /\ \E p \in SortOrders(CleanRows(df_dfr_ws_bm)) :
          format_df' = format_revenue_reporting(df_dfr_ws_bm, p)
    /\ pc' = "done"
    /\ UNCHANGED <<upstream, fetchVars, st_errors, asset_ids_df, wsVars, grouped_by_bmu_bm_df,
                   dfrVars, revenue_df, df_dfr_ws_bm>>

Next ==
    \/ Run_get_asset_ids
    \/ Run_get_physical_notifications
    \/ Run_convert_columns_to_datetime
    \/ Run_get_MIDP
    \/ Run_clean_MIDP
    \/ Run_get_system_price
    \/ Run_split_pns_df
    \/ Run_get_wholesale_revenue
    \/ Run_get_BM_revenue
    \/ Run_get_DFR_revenue
    \/ Run_filter_dfr_bmu
    \/ Run_get_bmu_dfr_dict
    \/ Run_replace_units_with_site_names
    \/ Run_append_wholesale_to_dfr
    \/ Run_merge_bm
    \/ Run_format_revenue_reporting

Spec == Init /\ [][Next]_vars

SpecWholesale == InitWholesale /\ [][Next]_vars

(***************************************************************************)
(* The fetchers, request by request                                        *)
(***************************************************************************)
MaxPages == 2

\* the statements of app.py that call a fetcher, and the endpoint of each
Fetchers ==
    {"get_physical_notifications", "get_MIDP", "get_system_price",
     "get_BM_revenue", "get_DFR_revenue"}

EndpointOf(statement) ==
    CASE statement = "get_physical_notifications" -> "pn"
      [] statement = "get_MIDP" -> "mid"
      [] statement = "get_system_price" -> "sys"
      [] statement = "get_BM_revenue" -> "bm"
      [] statement = "get_DFR_revenue" -> "dfr"

\* the statement of app.py that follows the call of a fetcher
StatementAfter(statement) ==
    CASE statement = "get_physical_notifications" -> "convert_columns_to_datetime"
      [] statement = "get_MIDP" -> "clean_MIDP"
      [] statement = "get_system_price" -> "split_pns_df"
      [] statement = "get_BM_revenue" -> "get_DFR_revenue"
      [] statement = "get_DFR_revenue" -> "filter_dfr_bmu"

\* get_BM_revenue and get_DFR_revenue loop `while url is not None`; the
\* fetchers of wholesale.py make their one request and read no link
Paginated(endpoint) == endpoint \in {"bm", "dfr"}

\* url = response.json()["next"]
NextLink(endpoint, page) == IF Paginated(endpoint) THEN page.next ELSE NoUrl

\* the frame of the page put in front of the list
AppendPage_front(list, page) == <<page.results>> \o list

\* df_list.append(pd.DataFrame(response.json()["results"]))
AppendPage(list, page) == Append(list, page.results)

\* the exception swallowed, the script going on with its next statement
OnFetchError_swallow(statement) == StatementAfter(statement)

\* except Exception as e: raise CustomException(e, sys), which app.py does
\* not catch
OnFetchError(statement) == "raised"

\* the fetcher is entered: url is the first url, df_list is empty
Call_fetcher ==
    /\ pc \in Fetchers /\ fetch_pc = "idle"
    /\ url' = 1
    /\ df_list' = <<>>
    /\ fetch_pc' = "loop"
    /\ UNCHANGED <<upstream, pc, st_errors, asset_ids_df, wsVars,
                   grouped_by_bmu_bm_df, dfrVars, mergeVars, server, in_flight,
                   requested>>

\* requests.get is started, through executor.submit where a pool is used
Submit_request ==
    /\ fetch_pc = "loop" /\ url # NoUrl
    /\ in_flight' = in_flight + 1
    /\ requested' = Append(requested, <<EndpointOf(pc), url>>)
    /\ fetch_pc' = "waiting"
    /\ UNCHANGED <<upstream, pc, st_errors, asset_ids_df, wsVars,
                   grouped_by_bmu_bm_df, dfrVars, mergeVars, server, url, df_list>>

\* future.result() returns a response of success status: the page is
\* appended and the next link is read.  No timeout is passed to requests.get
\* nor to future.result(): while the server does not answer, the fetcher
\* waits
Receive_response ==
    /\ fetch_pc = "waiting"
    /\ LET page == server[EndpointOf(pc)][url]
       IN  /\ page.answers /\ page.ok
           /\ df_list' = AppendPage(df_list, page)
           /\ url' = NextLink(EndpointOf(pc), page)
    /\ in_flight' = in_flight - 1
    /\ fetch_pc' = "loop"
    /\ UNCHANGED <<upstream, pc, st_errors, asset_ids_df, wsVars,
                   grouped_by_bmu_bm_df, dfrVars, mergeVars, server, requested>>

\* future.result() returns a response of non-success status:
\* response.raise_for_status() raises, and the except clause re-raises
Raise_for_status ==
    /\ fetch_pc = "waiting"
    /\ LET page == server[EndpointOf(pc)][url]
       IN  page.answers /\ ~page.ok
    /\ in_flight' = in_flight - 1
    /\ pc' = OnFetchError(pc)
    /\ fetch_pc' = "idle"
    /\ UNCHANGED <<upstream, st_errors, asset_ids_df, wsVars,
                   grouped_by_bmu_bm_df, dfrVars, mergeVars, server, url, df_list,
                   requested>>

\* the loop is left: what the fetcher does with the frames it received
LoopLeft(statement) == pc = statement /\ fetch_pc = "loop" /\ url = NoUrl

Return_get_physical_notifications ==
    /\ LoopLeft("get_physical_notifications")
    /\ LET bmus == {asset_ids_df[i].BMU_ID : i \in DOMAIN asset_ids_df}
           df == SelectSeq(Concat(df_list), LAMBDA r : r.bmUnit \in bmus)
       IN  /\ pns' = ReturnIfNotEmpty(df)
           /\ st_errors' = Shown(st_errors, ~NotEmpty(df), "PNs")
    /\ pc' = StatementAfter(pc)
    /\ fetch_pc' = "idle"
    /\ UNCHANGED <<upstream, asset_ids_df, cleaned_pns, midp, clean_midp, sys_price,
                   eq_df, not_eq_df, wholesale_df, grouped_by_bmu_wholesale_df,
                   grouped_by_bmu_bm_df, dfrVars, mergeVars, server, url, df_list,
                   in_flight, requested>>

Return_get_MIDP ==
    /\ LoopLeft("get_MIDP")
    /\ midp' = ReturnIfNotEmpty(Concat(df_list))
    /\ st_errors' = Shown(st_errors, ~NotEmpty(Concat(df_list)), "MIDP")
    /\ pc' = StatementAfter(pc)
    /\ fetch_pc' = "idle"
    /\ UNCHANGED <<upstream, asset_ids_df, pns, cleaned_pns, clean_midp, sys_price,
                   eq_df, not_eq_df, wholesale_df, grouped_by_bmu_wholesale_df,
                   grouped_by_bmu_bm_df, dfrVars, mergeVars, server, url, df_list,
                   in_flight, requested>>

Return_get_system_price ==
    /\ LoopLeft("get_system_price")
    /\ LET rawData == Concat(df_list)
       IN  /\ sys_price' = IF NotEmpty(rawData) THEN DropNa(rawData) ELSE None
           /\ st_errors' = Shown(st_errors, ~NotEmpty(rawData), "system price")
    /\ pc' = StatementAfter(pc)
    /\ fetch_pc' = "idle"
    /\ UNCHANGED <<upstream, asset_ids_df, pns, cleaned_pns, midp, clean_midp,
                   eq_df, not_eq_df, wholesale_df, grouped_by_bmu_wholesale_df,
                   grouped_by_bmu_bm_df, dfrVars, mergeVars, server, url, df_list,
                   in_flight, requested>>

Return_get_BM_revenue ==
    /\ LoopLeft("get_BM_revenue")
    /\ grouped_by_bmu_bm_df' = get_BM_revenue(Concat(df_list))
    /\ st_errors' = Shown(st_errors, ~NotEmpty(Concat(df_list)), "DETSYS")
    /\ pc' = StatementAfter(pc)
    /\ fetch_pc' = "idle"
    /\ UNCHANGED <<upstream, asset_ids_df, wsVars, dfrVars, mergeVars, server, url,
                   df_list, in_flight, requested>>

Return_get_DFR_revenue ==
    /\ LoopLeft("get_DFR_revenue")
    /\ dfr_df' = get_DFR_revenue(Concat(df_list))
    /\ st_errors' = Shown(st_errors, ~NotEmpty(Concat(df_list)), "DFR")
    /\ pc' = StatementAfter(pc)
    /\ fetch_pc' = "idle"
    /\ UNCHANGED <<upstream, asset_ids_df, wsVars, grouped_by_bmu_bm_df,
                   dfr_bmu_df, bmu_dict, grouped_by_unit_dfr_df, mergeVars, server,
                   url, df_list, in_flight, requested>>

\* the answers of an endpoint: what an answered page of success status
\* holds at position i, a page of non-success status, and no answer at all
ResultsAt(endpoint, i) ==
    CASE endpoint = "bm" -> {<<>>, <<Settlement(10 + i, R(5), i)>>}
      [] endpoint = "dfr" -> {<<Auction(1, i, R(25), 1)>>}

Failing == Page(TRUE, FALSE, <<>>, NoUrl)

Silent == Page(FALSE, FALSE, <<>>, NoUrl)

\* the pages the server may hold at position i: a page links to the page
\* after it or to none, the last page of the server to none
PageChoices(endpoint, i, last) ==
    {Page(TRUE, TRUE, r, n) :
       r \in ResultsAt(endpoint, i), n \in IF last THEN {NoUrl} ELSE {NoUrl, i + 1}}
    \cup {Failing, Silent}

RECURSIVE PagesFrom(_, _, _)
PagesFrom(endpoint, i, k) ==
    IF i = k THEN {<<p>> : p \in PageChoices(endpoint, i, TRUE)}
    ELSE {<<p>> \o c : p \in PageChoices(endpoint, i, FALSE),
                       c \in PagesFrom(endpoint, i + 1, k)}

PagedAnswers(endpoint) == UNION {PagesFrom(endpoint, 1, k) : k \in 1..MaxPages}

\* the three endpoints of the wholesale stream: all answer, or one of them
\* answers a non-success status, or never answers
WholesaleTables ==
    [pn |-> <<PN(11, 1, 1, <<0, 0>>, <<0, 30>>, 5, 5),
              PN(11, 1, 1, <<0, 0>>, <<0, 15>>, 2, -4)>>,
     mid |-> <<Quot("N2EXMIDP", 1, 100, 1)>>,
     sys |-> <<SysRow(1, R(2))>>]

WholesaleAnswers ==
    LET good == [e \in {"pn", "mid", "sys"} |->
                   <<Page(TRUE, TRUE, WholesaleTables[e], NoUrl)>>]
    IN  {good} \cup {[good EXCEPT ![e] = <<p>>] :
                       e \in {"pn", "mid", "sys"}, p \in {Failing, Silent}}

\* the records of all the pages of an endpoint
Held(pages) == Concat([i \in DOMAIN pages |-> pages[i].results])

\* runs that vary the answers of the endpoints
InitFetch ==
    /\ server \in {[pn |-> w.pn, mid |-> w.mid, sys |-> w.sys, bm |-> b, dfr |-> d] :
                     w \in WholesaleAnswers, b \in PagedAnswers("bm"),
                     d \in PagedAnswers("dfr")}
    /\ upstream = Upstream(AssetIds, Held(server.pn), Held(server.mid),
                           Held(server.sys), Held(server.bm), Held(server.dfr))
    /\ InitRun

NextFetch ==
    \/ Run_get_asset_ids
    \/ Call_fetcher
    \/ Submit_request
    \/ Receive_response
    \/ Raise_for_status
    \/ Return_get_physical_notifications
    \/ Run_convert_columns_to_datetime
    \/ Return_get_MIDP
    \/ Run_clean_MIDP
    \/ Return_get_system_price
    \/ Run_split_pns_df
    \/ Run_get_wholesale_revenue
    \/ Return_get_BM_revenue
    \/ Return_get_DFR_revenue
    \/ Run_filter_dfr_bmu
    \/ Run_get_bmu_dfr_dict
    \/ Run_replace_units_with_site_names
    \/ Run_append_wholesale_to_dfr
    \/ Run_merge_bm
    \/ Run_format_revenue_reporting

SpecFetch == InitFetch /\ [][NextFetch]_vars

(***************************************************************************)
(* Properties of the leaderboard (specification Spec)                      *)
(***************************************************************************)
\* the rows of a table that are of one site and EFA date
RowsOf(df, site, date) == {i \in DOMAIN df : df[i].Site = site /\ df[i].EFADate = date}

SysAlternatives == {R(999), <<-7, 2>>}

\* the merged table with other system-price revenues, f[i] on row i
WithSys(df, f) ==
    [i \in DOMAIN df |->
       [UnitName |-> df[i].UnitName, BMU_ID |-> df[i].BMU_ID, Site |-> df[i].Site,
        MW |-> df[i].MW, EFADate |-> df[i].EFADate, DFR |-> df[i].DFR,
        WholesaleMIDP |-> df[i].WholesaleMIDP, WholesaleSys |-> f[i],
        BM |-> df[i].BM]]

\* the system price series with every price replaced by v
Repriced(sys, v) ==
    [i \in DOMAIN sys |->
       SysRow(sys[i].settlementPeriod, IF IsNaN(sys[i].SysPrice) THEN NaN ELSE v)]

\* C1: in every row of the final leaderboard Total is DFR + Wholesale-Index +
\* Balancing of that row, and the system price does not influence Total: the
\* same rows with the same totals come out whatever the Wholesale-System
\* values of the merged table are, and the index-price wholesale revenue is
\* the same whatever the system prices of the periods are.
C1_TotalExcludesSystemPrice ==
    pc = "done" =>
      /\ \A i \in DOMAIN format_df :
            format_df[i].Total =
              format_df[i].DFR + format_df[i].WholesaleMIDP + format_df[i].BM
      /\ \A f \in [DOMAIN df_dfr_ws_bm -> SysAlternatives] :
            \E p \in SortOrders(CleanRows(WithSys(df_dfr_ws_bm, f))) :
               LET other == format_revenue_reporting(WithSys(df_dfr_ws_bm, f), p)
               IN  /\ Column(other, "Site") = Column(format_df, "Site")
                   /\ Column(other, "EFADate") = Column(format_df, "EFADate")
                   /\ Column(other, "Total") = Column(format_df, "Total")
      /\ \A v \in SysAlternatives :
            LET split == split_pns_df(cleaned_pns, clean_midp,
                                      DropNa(Repriced(upstream.sys, v)))
                other == get_wholesale_revenue(split.eq_df, split.not_eq_df).grouped
            IN  /\ Column(other, "UnitName") =
                     Column(grouped_by_bmu_wholesale_df, "UnitName")
                /\ Column(other, "WholesaleMIDP") =
                     Column(grouped_by_bmu_wholesale_df, "WholesaleMIDP")

\* the example of the specification: 100 + 50 + 25 = 175, system 999 left out
C1_Witness ==
    /\ pc = "done"
    /\ \E i \in DOMAIN format_df :
          /\ format_df[i].DFR = 100 /\ format_df[i].WholesaleMIDP = 50
          /\ format_df[i].WholesaleSys = 999 /\ format_df[i].BM = 25
          /\ format_df[i].Total = 175

\* the sum of the three revenues of a merged row before any truncation
UntruncatedTotal(r) == RAdd(RAdd(FillNa0(r.DFR), FillNa0(r.WholesaleMIDP)), FillNa0(r.BM))

\* C2: the Total of every row is computed from the DFR, wholesale-index and
\* balancing revenues before truncation, the truncation to integers being
\* applied afterwards: the Total shown is the truncated sum of the three
\* untruncated revenues of the merged row.
C2_TotalFromUntruncated ==
    pc = "done" =>
      \A i \in DOMAIN df_dfr_ws_bm :
         \E j \in RowsOf(format_df, df_dfr_ws_bm[i].Site, df_dfr_ws_bm[i].EFADate) :
            format_df[j].Total = AsTypeInt(UntruncatedTotal(df_dfr_ws_bm[i]))

\* C3: in every row of the final leaderboard with MW > 0 the normalized
\* metric is Total * 365 / (MW * 1000) truncated toward zero to an integer.
C3_NormalizedMetric ==
    pc = "done" =>
      \A i \in DOMAIN format_df :
         format_df[i].MW > 0 =>
           LET n == format_df[i].Total * 365
               d == format_df[i].MW * 1000
               k == format_df[i].k_MW_yr
           IN  IF n >= 0 THEN k * d <= n /\ n < (k + 1) * d
               ELSE (k - 1) * d < n /\ n <= k * d

\* the example of the specification: Total 36500 and MW 2 give 6661
C3_Witness ==
    /\ pc = "done"
    /\ \E i \in DOMAIN format_df :
          format_df[i].Total = 36500 /\ format_df[i].MW = 2 /\ format_df[i].k_MW_yr = 6661

\* the place of a leaderboard row in the merged table
MergePos(r) == CHOOSE i \in DOMAIN df_dfr_ws_bm :
                  df_dfr_ws_bm[i].Site = r.Site /\ df_dfr_ws_bm[i].EFADate = r.EFADate

\* C4: the rows of the final leaderboard are in descending order of the
\* normalized metric, and rows of equal normalized metric are in the order
\* they had in the merged table.
C4_DescendingTiesInMergeOrder ==
    pc = "done" =>
      \A i, j \in DOMAIN format_df :
         i < j =>
           /\ format_df[i].k_MW_yr >= format_df[j].k_MW_yr
           /\ format_df[i].k_MW_yr = format_df[j].k_MW_yr =>
                MergePos(format_df[i]) < MergePos(format_df[j])

NoBalancingRecord(r) ==
    \A q \in DOMAIN grouped_by_bmu_bm_df : grouped_by_bmu_bm_df[q].BMU_ID # r.BMU_ID

\* C5: the balancing merge neither removes nor duplicates a row: every row of
\* the auction-wholesale merge is in the final leaderboard exactly once, and
\* with Balancing 0 when the balancing aggregate has no record of its asset.
C5_BalancingLeftJoin ==
    pc = "done" =>
      /\ Len(format_df) = Len(revenue_df)
      /\ \A i \in DOMAIN revenue_df :
            LET rows == RowsOf(format_df, revenue_df[i].Site, revenue_df[i].EFADate)
            IN  /\ Cardinality(rows) = 1
                /\ NoBalancingRecord(revenue_df[i]) =>
                     \A j \in rows : format_df[j].BM = 0

C5_Witness ==
    /\ pc = "done"
    /\ \E i \in DOMAIN revenue_df :
          /\ NoBalancingRecord(revenue_df[i])
          /\ \E j \in DOMAIN format_df :
                format_df[j].Site = revenue_df[i].Site /\ format_df[j].BM = 0

HasAuctionRecord(a) == \E i \in DOMAIN dfr_df : dfr_df[i].UnitName = a.DFR_FFR_ID

HasWholesaleAggregate(a) == \E i \in DOMAIN wholesale_df : wholesale_df[i].bmUnit = a.BMU_ID

\* C6: an asset is in the final leaderboard if and only if it has an auction
\* record under its frequency-response ID and a wholesale aggregate of its
\* own (of the notifications of its balancing unit).
C6_JoinedOnAsset ==
    pc = "done" =>
      \A a \in DOMAIN asset_ids_df :
         (\E i \in DOMAIN format_df : format_df[i].Site = asset_ids_df[a].Site)
           <=> (HasAuctionRecord(asset_ids_df[a]) /\ HasWholesaleAggregate(asset_ids_df[a]))

\* C7: the final leaderboard has at most one row per asset.
C7_OneRowPerAsset ==
    pc = "done" =>
      \A i, j \in DOMAIN format_df : i # j => format_df[i].Site # format_df[j].Site

(***************************************************************************)
(* Properties of the wholesale calculation (specification SpecWholesale)   *)
(***************************************************************************)
RECURSIVE Enumerate(_)
\* the elements of the finite set S, each once, in some order
Enumerate(S) ==
    IF S = {} THEN <<>>
    ELSE LET x == CHOOSE y \in S : TRUE
         IN  <<x>> \o Enumerate(S \ {x})

RECURSIVE SumSeq(_)
SumSeq(s) == IF s = <<>> THEN R(0) ELSE RAdd(s[1], SumSeq(Tail(s)))

\* the sum over the finite set S of the values f[x]
SumSet(S, f) ==
    LET e == Enumerate(S) IN SumSeq([i \in DOMAIN e |-> f[e[i]]])

\* the effective volume of an interval: its level when flat, else the sum of
\* its two levels
EffectiveVolume(r) ==
    IF r.levelFrom = r.levelTo THEN r.levelFrom ELSE RAdd(r.levelFrom, r.levelTo)

\* the duration of an interval in hours, its times being in seconds
DurationHours(r) == <<r.timeTo - r.timeFrom, 3600>>

\* the price of period sp in a series, 0 when the series has none or a NaN
PriceOrZero(series, col, sp) ==
    IF \E j \in DOMAIN series : series[j].settlementPeriod = sp /\ ~IsNaN(series[j][col])
    THEN series[CHOOSE j \in DOMAIN series :
                   series[j].settlementPeriod = sp /\ ~IsNaN(series[j][col])][col]
    ELSE R(0)

IntervalsOf(u) == {i \in DOMAIN cleaned_pns : cleaned_pns[i].nationalGridBmUnit = u}

WholesaleRowsOf(u) ==
    {g \in DOMAIN grouped_by_bmu_wholesale_df :
       grouped_by_bmu_wholesale_df[g].UnitName = u}

\* C8: no interval is lost: every unit with a physical interval has a row in
\* the wholesale aggregate, and each of its intervals contributes volume *
\* hours * price to a revenue column, the price being 0 when the series of
\* that column has no price for the period of the interval.
C8_NoIntervalLost ==
    IsFrame(grouped_by_bmu_wholesale_df) =>
      \A i \in DOMAIN cleaned_pns :
         LET u == cleaned_pns[i].nationalGridBmUnit
             Revenue(series, col) ==
               SumSet(IntervalsOf(u),
                      [n \in IntervalsOf(u) |->
                         RMul(RMul(EffectiveVolume(cleaned_pns[n]),
                                   DurationHours(cleaned_pns[n])),
                              PriceOrZero(series, col, cleaned_pns[n].settlementPeriod))])
         IN  /\ WholesaleRowsOf(u) # {}
             /\ \A g \in WholesaleRowsOf(u) :
                   /\ grouped_by_bmu_wholesale_df[g].WholesaleMIDP =
                        Revenue(clean_midp, "MIDP")
                   /\ grouped_by_bmu_wholesale_df[g].WholesaleSys =
                        Revenue(sys_price, "SysPrice")

\* the price-joined intervals of unit u: an interval with a row of each price
\* series of its settlement period
Joined(u) ==
    {t \in IntervalsOf(u) \X (DOMAIN clean_midp) \X (DOMAIN sys_price) :
       /\ clean_midp[t[2]].settlementPeriod = cleaned_pns[t[1]].settlementPeriod
       /\ sys_price[t[3]].settlementPeriod = cleaned_pns[t[1]].settlementPeriod}

JoinedRevenue(t, price) ==
    RMul(RMul(EffectiveVolume(cleaned_pns[t[1]]), DurationHours(cleaned_pns[t[1]])),
         FillNa0(price))

\* C9: the aggregate has one row for each unit with a price-joined interval
\* and no other row, and each revenue column of the row is the sum over the
\* price-joined intervals of the unit of effective volume * duration in
\* hours * reference price, the effective volume being levelFrom on a flat
\* interval and levelFrom + levelTo on a ramping one.
C9_WholesaleRevenue ==
    IsFrame(grouped_by_bmu_wholesale_df) =>
      /\ \A i \in DOMAIN cleaned_pns :
            LET u == cleaned_pns[i].nationalGridBmUnit
            IN  Cardinality(WholesaleRowsOf(u)) = IF Joined(u) = {} THEN 0 ELSE 1
      /\ \A g \in DOMAIN grouped_by_bmu_wholesale_df :
            LET row == grouped_by_bmu_wholesale_df[g]
            IN  /\ Joined(row.UnitName) # {}
                /\ row.WholesaleMIDP =
                     SumSet(Joined(row.UnitName),
                            [t \in Joined(row.UnitName) |->
                               JoinedRevenue(t, clean_midp[t[2]].MIDP)])
                /\ row.WholesaleSys =
                     SumSet(Joined(row.UnitName),
                            [t \in Joined(row.UnitName) |->
                               JoinedRevenue(t, sys_price[t[3]].SysPrice)])

\* a flat 5 MW for 0.5 h at 100 gives 250, and a ramp from 2 to -4 MW for
\* 0.25 h at 100 gives -50
C9_Witness ==
    /\ IsFrame(grouped_by_bmu_wholesale_df)
    /\ Len(eq_df) = 1 /\ Len(not_eq_df) = 1
    /\ \E g \in DOMAIN grouped_by_bmu_wholesale_df :
          grouped_by_bmu_wholesale_df[g].WholesaleMIDP = R(200)

QuotationsOf(sp) == {i \in DOMAIN midp : midp[i].settlementPeriod = sp}

\* C10: clean_MIDP returns exactly one row per settlement period of the
\* quotations and no other row, and where the total volume of the period is
\* not zero the price of the row is sum(price * volume) / sum(volume).
C10_WeightedAverage ==
    IsFrame(clean_midp) =>
      /\ \A i \in DOMAIN midp :
            Cardinality({j \in DOMAIN clean_midp :
               clean_midp[j].settlementPeriod = midp[i].settlementPeriod}) = 1
      /\ \A j \in DOMAIN clean_midp :
            LET qs == QuotationsOf(clean_midp[j].settlementPeriod)
                volume == SumSet(qs, [i \in qs |-> midp[i].Volume])
                value == SumSet(qs, [i \in qs |-> RMul(midp[i].MIDP, midp[i].Volume)])
            IN  /\ qs # {}
                /\ volume # R(0) =>
                     /\ ~IsNaN(clean_midp[j].MIDP)
                     /\ RMul(clean_midp[j].MIDP, volume) = value

\* the example of the specification: (50, 10) and (70, 30) give 65
C10_Witness ==
    /\ IsFrame(clean_midp)
    /\ Len(midp) = 2
    /\ \E j \in DOMAIN clean_midp : clean_midp[j].MIDP = R(65)

\* the total volume of the quotations of settlement period sp
TotalVolume(sp) == SumSet(QuotationsOf(sp), [i \in QuotationsOf(sp) |-> midp[i].Volume])

MidpRowsOf(sp) == {j \in DOMAIN clean_midp : clean_midp[j].settlementPeriod = sp}

\* C11 as stated: a settlement period whose quotations have total volume 0
\* has no row in the result of clean_MIDP.
C11_ZeroVolumeNoRow ==
    IsFrame(clean_midp) =>
      \A i \in DOMAIN midp :
         TotalVolume(midp[i].settlementPeriod) = R(0) =>
           MidpRowsOf(midp[i].settlementPeriod) = {}

\* C11 as amended: a settlement period whose quotations all have volume 0
\* has exactly one row in the result of clean_MIDP, and the price of that
\* row is NaN (0 / 0): the period is in the series, its price is missing.
C11_ZeroVolumeNaNRow ==
    IsFrame(clean_midp) =>
      \A i \in DOMAIN midp :
         (\A q \in QuotationsOf(midp[i].settlementPeriod) : midp[q].Volume = R(0)) =>
           /\ Cardinality(MidpRowsOf(midp[i].settlementPeriod)) = 1
           /\ \A j \in MidpRowsOf(midp[i].settlementPeriod) : IsNaN(clean_midp[j].MIDP)

\* period 1 has a price, period 2 has one quotation, of volume 0
C11_Witness ==
    /\ IsFrame(clean_midp)
    /\ Len(clean_midp) = 2
    /\ \E i \in DOMAIN midp :
          /\ midp[i].settlementPeriod = 2 /\ midp[i].Volume = R(0)
          /\ \E j \in MidpRowsOf(2) : IsNaN(clean_midp[j].MIDP)
    /\ \E j \in MidpRowsOf(1) : ~IsNaN(clean_midp[j].MIDP)

(***************************************************************************)
(* Properties of the auction aggregate (specification Spec)                *)
(***************************************************************************)
\* the frequency-response ids of the asset mapping
MappedIds == {upstream.assets[i].DFR_FFR_ID : i \in DOMAIN upstream.assets}

\* the auction records of unit u on EFA date d
AuctionRecordsOf(u, d) ==
    {i \in DOMAIN upstream.dfr :
       upstream.dfr[i].UnitName = u /\ upstream.dfr[i].EFADate = d}

DfrRowsOf(u, d) ==
    {g \in DOMAIN dfr_bmu_df : dfr_bmu_df[g].UnitName = u /\ dfr_bmu_df[g].EFADate = d}

\* C12: the auction aggregate has exactly one row per (unit, EFA date) with
\* an auction record whose unit is a frequency-response id of the mapping,
\* the revenue of the row is the sum over those records of clearing price *
\* cleared volume * 4, and a record of a unit that is not in the mapping is
\* in no row.
C12_AuctionAggregate ==
    IsFrame(dfr_bmu_df) =>
      /\ \A i \in DOMAIN upstream.dfr :
            LET r == upstream.dfr[i]
            IN  Cardinality(DfrRowsOf(r.UnitName, r.EFADate)) =
                  IF r.UnitName \in MappedIds THEN 1 ELSE 0
      /\ \A g \in DOMAIN dfr_bmu_df :
            LET row == dfr_bmu_df[g]
                recs == AuctionRecordsOf(row.UnitName, row.EFADate)
            IN  /\ recs # {}
                /\ row.UnitName \in MappedIds
                /\ row.Revenue =
                     SumSet(recs, [i \in recs |->
                                     RMul(RMul(upstream.dfr[i].ClearingPrice,
                                               upstream.dfr[i].ClearedVolume), R(4))])

\* a record of unit 6, which is not in the mapping, beside one of unit 1
\* (25 * 1 * 4 = 100): the aggregate has the row of unit 1 only
C12_Witness ==
    /\ IsFrame(dfr_bmu_df)
    /\ \E i \in DOMAIN upstream.dfr : upstream.dfr[i].UnitName = 6
    /\ Len(dfr_bmu_df) = 1
    /\ dfr_bmu_df[1].UnitName = 1 /\ dfr_bmu_df[1].Revenue = R(100)

(***************************************************************************)
(* Properties of a run on an empty stream (specification Spec)             *)
(***************************************************************************)
\* the statements of app.py after the call of get_DFR_revenue
AfterFetches ==
    {"filter_dfr_bmu", "get_bmu_dfr_dict", "replace_units_with_site_names",
     "append_wholesale_to_dfr", "merge_bm", "format_revenue_reporting", "done",
     "raised"}

\* C13: when the balancing or the auction fetch returns no record for the
\* date, the run shows the 'please enter a valid date' message of that
\* fetch and no later step of the pipeline raises an exception.
C13_EmptyFetchNoCrash ==
    /\ (upstream.bm = <<>> /\ pc \in AfterFetches) =>
          \E i \in DOMAIN st_errors : st_errors[i] = "DETSYS"
    /\ (upstream.dfr = <<>> /\ pc \in AfterFetches) =>
          \E i \in DOMAIN st_errors : st_errors[i] = "DFR"
    /\ (upstream.bm = <<>> \/ upstream.dfr = <<>>) => pc # "raised"

(***************************************************************************)
(* Properties of split_pns_df (specification SpecWholesale)                *)
(***************************************************************************)
\* the intervals with a row of each price series of their settlement period
JoinedIntervals ==
    {t \in (DOMAIN cleaned_pns) \X (DOMAIN clean_midp) \X (DOMAIN sys_price) :
       /\ clean_midp[t[2]].settlementPeriod = cleaned_pns[t[1]].settlementPeriod
       /\ sys_price[t[3]].settlementPeriod = cleaned_pns[t[1]].settlementPeriod}

IsFlat(r) == r.levelFrom = r.levelTo

\* C17: split_pns_df shows its 'please enter a valid date' error exactly
\* when no interval remains after the price joins (so not on a date whose
\* joined intervals are all flat, or all ramping), and its two tables
\* partition the joined intervals: the flat ones in the first, the ramping
\* ones in the second.
C17_ErrorOnlyWhenNoInterval ==
    IsFrame(eq_df) =>
      /\ (\E i \in DOMAIN st_errors : st_errors[i] = "splitting") <=>
            JoinedIntervals = {}
      /\ \A i \in DOMAIN eq_df : IsFlat(eq_df[i])
      /\ \A i \in DOMAIN not_eq_df : ~IsFlat(not_eq_df[i])
      /\ Len(eq_df) =
            Cardinality({t \in JoinedIntervals : IsFlat(cleaned_pns[t[1]])})
      /\ Len(not_eq_df) =
            Cardinality({t \in JoinedIntervals : ~IsFlat(cleaned_pns[t[1]])})

(***************************************************************************)
(* Properties of the fetches (specification SpecFetch)                     *)
(***************************************************************************)
Endpoints == {"pn", "mid", "sys", "bm", "dfr"}

\* the calculator of endpoint e has received a non-success status
Failed(e) ==
    /\ requested # <<>> /\ in_flight = 0
    /\ LET last == requested[Len(requested)]
       IN  /\ last[1] = e
           /\ server[e][last[2]].answers /\ ~server[e][last[2]].ok

\* the run has ended: no statement of the script is left to run
RunEnded == ~ENABLED NextFetch

\* the calculators of a stream have returned
WholesaleRan == grouped_by_bmu_wholesale_df # Unbound

BalancingRan == grouped_by_bmu_bm_df # Unbound

AuctionRan == dfr_df # Unbound

\* C14 as stated: after a fatal error in the calculator of one stream the
\* calculators of the other streams still run and the run ends with a
\* leaderboard.
C14_FailureIsolated ==
    \A e \in Endpoints :
       (Failed(e) /\ RunEnded) =>
         /\ IsFrame(format_df)
         /\ e \in {"pn", "mid", "sys"} => (BalancingRan /\ AuctionRan)
         /\ e = "bm" => (WholesaleRan /\ AuctionRan)
         /\ e = "dfr" => (WholesaleRan /\ BalancingRan)

\* C14 as amended: a non-success status in the fetch of one stream ends the
\* run for the date at that calculator with an exception: the calculators
\* called before it have returned, neither it nor a calculator after it
\* returns, and no leaderboard is produced.
C14_FailureAborts ==
    \A e \in Endpoints :
       Failed(e) =>
         /\ pc = "raised" /\ RunEnded
         /\ format_df = Unbound
         /\ e \in {"pn", "mid", "sys"} =>
               (~WholesaleRan /\ ~BalancingRan /\ ~AuctionRan)
         /\ e = "bm" => (WholesaleRan /\ ~BalancingRan /\ ~AuctionRan)
         /\ e = "dfr" => (WholesaleRan /\ BalancingRan /\ ~AuctionRan)

\* the second page of the balancing fetch answers a non-success status,
\* after the wholesale stream has been computed
C14_Witness ==
    /\ Failed("bm")
    /\ requested[Len(requested)] = <<"bm", 2>>
    /\ IsFrame(grouped_by_bmu_wholesale_df)
    /\ pc = "raised"

\* C15: no fetch blocks for ever: whatever the servers do, a run that has
\* not ended (with a leaderboard or with a raised error) can take a step.
C15_NoFetchBlocks == pc \in {"done", "raised"} \/ ENABLED NextFetch

\* the urls requested from endpoint e, in the order of the requests
RECURSIVE UrlsOf(_, _)
UrlsOf(e, reqs) ==
    IF reqs = <<>> THEN <<>>
    ELSE IF reqs[1][1] = e THEN <<reqs[1][2]>> \o UrlsOf(e, Tail(reqs))
    ELSE UrlsOf(e, Tail(reqs))

\* the chain of continuation links of an endpoint from url u: it ends at
\* the first page whose link is null, or that does not answer a success
RECURSIVE ChainFrom(_, _)
ChainFrom(pages, u) ==
    IF u = NoUrl THEN <<>>
    ELSE IF pages[u].answers /\ pages[u].ok
         THEN <<u>> \o ChainFrom(pages, pages[u].next)
         ELSE <<u>>

ChainResults(e) ==
    LET chain == ChainFrom(server[e], 1)
    IN  [k \in DOMAIN chain |-> server[e][chain[k]].results]

\* C16: in the paginated fetches at most one request is in flight; the
\* pages requested are the pages of the chain of continuation links, each
\* once and in the order of the chain, none after a page whose link is null
\* or whose status is not a success; and when the loop is left normally
\* every page of the chain has been requested and the frames to concatenate
\* are the records of the pages of the chain, in that order, which is what
\* the calculator then computes from.
C16_SequentialPagination ==
    /\ in_flight \in {0, 1}
    /\ \A e \in {"bm", "dfr"} :
          LET urls == UrlsOf(e, requested)
              chain == ChainFrom(server[e], 1)
          IN  /\ Len(urls) <= Len(chain)
              /\ \A k \in DOMAIN urls : urls[k] = chain[k]
              /\ (fetch_pc = "loop" /\ url = NoUrl /\ EndpointOf(pc) = e) =>
                    (urls = chain /\ df_list = ChainResults(e))
    /\ BalancingRan =>
          grouped_by_bmu_bm_df = get_BM_revenue(Concat(ChainResults("bm")))
    /\ AuctionRan => dfr_df = get_DFR_revenue(Concat(ChainResults("dfr")))

\* two pages of the balancing fetch, each with a record, have been received
\* and the loop is left
C16_Witness ==
    /\ pc = "get_BM_revenue" /\ fetch_pc = "loop" /\ url = NoUrl
    /\ UrlsOf("bm", requested) = <<1, 2>>
    /\ Len(df_list) = 2 /\ Len(df_list[1]) = 1 /\ Len(df_list[2]) = 1
    /\ df_list[1] # df_list[2]
====
